---- MODULE Spec2Model ----
(***************************************************************************)
(* Model of py_cxx_builder.CXXBuilder: the source registry, the version    *)
(* decomposition, the staleness checker and the build() sequence.          *)
(* Strings are sequences of tokens: "/" is the path separator, every other *)
(* token is a run of characters that contains no separator.                *)
(***************************************************************************)
EXTENDS Integers, Sequences, FiniteSets, TLC

VARIABLES
  files, mainsrc, need_test_link, lastReg,      \* the registry and its ghost
  version, macros, constructed,                 \* project version, -D macros
  probe,                                        \* one staleness query
  pc, hint, nprocess, cmds, o_cmds, jobs, idx,  \* one build() invocation
  log, dbWrites, outcome, prevOutcome,
  now, srcM, dirM, objM, libF, testF, mainM, db \* the filesystem

regvars == <<files, mainsrc, need_test_link, lastReg>>
vervars == <<version, macros, constructed>>
bldvars == <<pc, hint, nprocess, cmds, o_cmds, jobs, idx,
             log, dbWrites, outcome, prevOutcome>>
fsvars == <<now, srcM, dirM, objM, libF, testF, mainM, db>>
vars == <<regvars, vervars, probe, bldvars, fsvars>>

\* ------------------------------------------------------------------ bounds
MaxBatch == 2
MaxVerLen == 6
MaxProbeTime == 3
MaxTime == 1
MaxHint == 2
MaxCpu == 1

\* --------------------------------------------------------------- strings
None == <<"<None>">>
KindNone == "None"
Kinds == {KindNone, "embed"}
Cwd == <<"/", "w">>
ObjPrefix == <<"build", "/", "objsVER", "/">>
obj_ext == <<".o">>
SingleChar == {"/", ".", "w"}

RECURSIVE SplitSep(_, _, _, _)
\* s.split(sep) on a token string: the components between separators
SplitSep(s, sep, cur, acc) ==
  IF s = <<>> THEN Append(acc, cur)
  ELSE IF Head(s) = sep THEN SplitSep(Tail(s), sep, <<>>, Append(acc, cur))
  ELSE SplitSep(Tail(s), sep, Append(cur, Head(s)), acc)

RECURSIVE NormStack(_, _, _)
NormStack(comps, isabs, st) ==
  IF comps = <<>> THEN st
  ELSE LET c == Head(comps) IN
    IF c = <<>> \/ c = <<".">> THEN NormStack(Tail(comps), isabs, st)
    ELSE IF c # <<"..">> THEN NormStack(Tail(comps), isabs, Append(st, c))
    ELSE IF st # <<>> /\ st[Len(st)] # <<"..">>
         THEN NormStack(Tail(comps), isabs, SubSeq(st, 1, Len(st) - 1))
    ELSE IF isabs THEN NormStack(Tail(comps), isabs, st)
    ELSE NormStack(Tail(comps), isabs, Append(st, c))

RECURSIVE JoinSep(_)
JoinSep(comps) ==
  IF comps = <<>> THEN <<>>
  ELSE IF Len(comps) = 1 THEN comps[1]
  ELSE comps[1] \o <<"/">> \o JoinSep(Tail(comps))

isabs(p) == p # <<>> /\ p[1] = "/"

normpath(p) ==
  LET st == NormStack(SplitSep(p, "/", <<>>, <<>>), isabs(p), <<>>)
      body == JoinSep(st)
  IN IF isabs(p) THEN <<"/">> \o body
     ELSE IF body = <<>> THEN <<".">> ELSE body

path_join(a, b) ==
  IF isabs(b) THEN b
  ELSE IF a = <<>> \/ a[Len(a)] = "/" THEN a \o b
  ELSE a \o <<"/">> \o b

abspath(p) == normpath(IF isabs(p) THEN p ELSE path_join(Cwd, p))

\* re.sub(r"^.*[\\/].[\\/]", "", fn): drop everything up to the last
\* separator, single character, separator
StripMatches(fn) ==
  {i \in 1..(Len(fn) - 2) :
      fn[i] = "/" /\ fn[i + 1] \in SingleChar /\ fn[i + 2] = "/"}

StripPrefix(fn) ==
  LET m == StripMatches(fn) IN
  IF m = {} THEN fn
  ELSE LET i == CHOOSE x \in m : \A y \in m : y <= x
       IN SubSeq(fn, i + 3, Len(fn))

ObjName(fn) == normpath(ObjPrefix \o StripPrefix(fn) \o obj_ext)

\* -------------------------------------------------------------- registry
\* self.files is a dict: an insertion-ordered list of (key, [objn, kind])
Keys(reg) == {reg[i].key : i \in 1..Len(reg)}

IndexOf(reg, k) == CHOOSE i \in 1..Len(reg) : reg[i].key = k

Lookup(reg, k) == reg[IndexOf(reg, k)]

DictSetAppend(reg, k, objn, kind) ==
  Append(reg, [key |-> k, objn |-> objn, kind |-> kind])

\* self.files[k] = [objn, kind]
DictSet(reg, k, objn, kind) ==
  IF k \in Keys(reg)
  THEN [reg EXCEPT ![IndexOf(reg, k)] = [key |-> k, objn |-> objn, kind |-> kind]]
  ELSE Append(reg, [key |-> k, objn |-> objn, kind |-> kind])

\* del self.files[k]
DictDel(reg, k) ==
  LET i == IndexOf(reg, k)
  IN SubSeq(reg, 1, i - 1) \o SubSeq(reg, i + 1, Len(reg))

AddFullName(fn, directory) ==
  abspath(IF directory = None THEN fn ELSE path_join(directory, fn))

ConcatFullName(fn, directory) ==
  IF directory = None THEN fn ELSE directory \o <<"/">> \o fn

RECURSIVE AddAll(_, _, _, _)
AddAll(reg, fns, directory, kind) ==
  IF fns = <<>> THEN reg
  ELSE LET fn == Head(fns) IN
    IF fn = <<>> THEN AddAll(reg, Tail(fns), directory, kind)
    ELSE AddAll(DictSet(reg, AddFullName(fn, directory), ObjName(fn), kind),
                Tail(fns), directory, kind)

RECURSIVE RemoveAll(_, _, _)
RemoveAll(reg, fns, directory) ==
  IF fns = <<>> THEN reg
  ELSE LET fn == Head(fns)
           fullfn == abspath(ConcatFullName(fn, directory))
       IN IF fn = <<>> THEN RemoveAll(reg, Tail(fns), directory)
          ELSE IF fullfn \in Keys(reg)
               THEN RemoveAll(DictDel(reg, fullfn), Tail(fns), directory)
               ELSE RemoveAll(reg, Tail(fns), directory)

\* ---------------------------------------------------------------- inputs
FileNames == { <<>>,
               <<"a.cpp">>,
               <<"/", "w", "/", ".", "/", "dd", "/", "a.cpp">> }
Directories == { None, <<"dd">> }
MainNames == { <<"a.cpp">> }
Batches == UNION {[1..n -> FileNames] : n \in 1..MaxBatch}

\* the last registration an add_files call made (none for any other call):
\* its arguments, and whether it replaced an entry that differed from it
NoReg == [fn |-> <<>>, directory |-> None, kind |-> KindNone, replaced |-> FALSE]

RECURSIVE LastRegOf(_, _, _, _, _)
LastRegOf(reg, fns, directory, kind, acc) ==
  IF fns = <<>> THEN acc
  ELSE LET fn == Head(fns)
           k == AddFullName(fn, directory)
       IN IF fn = <<>> THEN LastRegOf(reg, Tail(fns), directory, kind, acc)
          ELSE LastRegOf(DictSet(reg, k, ObjName(fn), kind), Tail(fns), directory, kind,
                 [fn |-> fn, directory |-> directory, kind |-> kind,
                  replaced |-> (k \in Keys(reg)
                                /\ (Lookup(reg, k).objn # ObjName(fn)
                                    \/ Lookup(reg, k).kind # kind))])

\* --------------------------------------------------------------- actions
add_files(fns, directory, kind) ==
  /\ files' = AddAll(files, fns, directory, kind)
  /\ lastReg' = LastRegOf(files, fns, directory, kind, NoReg)
  /\ UNCHANGED <<mainsrc, need_test_link, vervars, probe, bldvars, fsvars>>

remove_files(fns, directory) ==
  /\ files' = RemoveAll(files, fns, directory)
  /\ lastReg' = NoReg
  /\ UNCHANGED <<mainsrc, need_test_link, vervars, probe, bldvars, fsvars>>

\* readable: open(self.mainsrc) succeeds; marker: b'TEST_LINKER' in content
set_main_file(fn, directory, readable, marker) ==
  LET fullfn == ConcatFullName(fn, directory) IN
  /\ mainsrc' = fullfn
  /\ lastReg' = NoReg
  /\ UNCHANGED <<vervars, probe, bldvars, fsvars>>
  /\ IF ~readable
     THEN UNCHANGED <<files, need_test_link>>
     ELSE /\ need_test_link' = marker
          /\ files' = IF abspath(fullfn) \in Keys(files)
                      THEN DictDel(files, abspath(fullfn))
                      ELSE files

AddFilesStep ==
  \E fns \in Batches, d \in Directories, k \in Kinds : add_files(fns, d, k)

RemoveFilesStep ==
  \E fns \in Batches, d \in Directories : remove_files(fns, d)

SetMainFileStep ==
  \E fn \in MainNames, d \in Directories, r \in BOOLEAN, m \in BOOLEAN :
     set_main_file(fn, d, r, m)


\* --------------------------------------------------------------- version
Digits == {"0", "1"}
Alphabet == Digits \cup {".", "-", "x"}
DigitVal(c) == IF c = "0" THEN 0 ELSE 1

RECURSIVE DigitsVal(_, _)
DigitsVal(ds, acc) ==
  IF ds = <<>> THEN acc ELSE DigitsVal(Tail(ds), 10 * acc + DigitVal(Head(ds)))

AllDigits(ds) == ds # <<>> /\ \A i \in 1..Len(ds) : ds[i] \in Digits

\* int(x) on a string over Alphabet: an optional sign, then one or more digits
python_int(x) ==
  IF x # <<>> /\ x[1] = "-"
  THEN IF AllDigits(Tail(x)) THEN [ok |-> TRUE, val |-> 0 - DigitsVal(Tail(x), 0)]
       ELSE [ok |-> FALSE, val |-> 0]
  ELSE IF AllDigits(x) THEN [ok |-> TRUE, val |-> DigitsVal(x, 0)]
       ELSE [ok |-> FALSE, val |-> 0]

\* variant: minor and patch taken from each other's component
ParseVersionSwapped(v) ==
  LET comps == SplitSep(v, ".", <<>>, <<>>) IN
  IF (\E i \in 1..Len(comps) : ~python_int(comps[i]).ok) \/ Len(comps) # 3
  THEN [ok |-> FALSE, major |-> 0, minor |-> 0, patch |-> 0]
  ELSE [ok |-> TRUE, major |-> python_int(comps[1]).val,
        minor |-> python_int(comps[3]).val, patch |-> python_int(comps[2]).val]

\* major, minor, patch = tuple([int(x) for x in self.version.split('.')])
ParseVersion(v) ==
  LET comps == SplitSep(v, ".", <<>>, <<>>) IN
  IF (\E i \in 1..Len(comps) : ~python_int(comps[i]).ok) \/ Len(comps) # 3
  THEN [ok |-> FALSE, major |-> 0, minor |-> 0, patch |-> 0]
  ELSE [ok |-> TRUE, major |-> python_int(comps[1]).val,
        minor |-> python_int(comps[2]).val, patch |-> python_int(comps[3]).val]

add_macro(ms, key, value) == Append(ms, <<key, value>>)

VersionMacros(ms, pv) ==
  add_macro(add_macro(add_macro(ms, "PROJ_MAJOR_VERSION", pv.major),
                      "PROJ_MINOR_VERSION", pv.minor),
            "PROJ_PATCH_VERSION", pv.patch)

\* ------------------------------------------------------------- staleness
NoFile == [exists |-> FALSE, mtime |-> 0]
FileAt(t) == [exists |-> TRUE, mtime |-> t]

\* variant: the directory is consulted for every kind
need_compile_any_kind(dst, srct, dirt, kind) ==
  IF ~dst.exists THEN TRUE
  ELSE IF dst.mtime < srct THEN TRUE
  ELSE dst.mtime < dirt

\* _need_compile: dst is the stat of the output, srct the source's mtime,
\* dirt the mtime of the source's directory
need_compile(dst, srct, dirt, kind) ==
  IF ~dst.exists THEN TRUE
  ELSE IF dst.mtime < srct THEN TRUE
  ELSE IF kind # KindNone /\ kind = "embed" THEN FALSE
  ELSE dst.mtime < dirt

ProbeKinds == {KindNone, "embed", "asm"}
NoProbe == [dst |-> NoFile, srct |-> 0, dirt |-> 0, kind |-> KindNone, res |-> "idle"]

ProbeStep ==
  /\ probe.res = "unset"
  /\ probe' = [probe EXCEPT !.res =
        IF need_compile(probe.dst, probe.srct, probe.dirt, probe.kind)
        THEN "True" ELSE "False"]
  /\ UNCHANGED <<regvars, vervars, bldvars, fsvars>>

\* ------------------------------------------------------------ filesystem
BuildNames == { <<"a.cpp">>, <<"e.bin">> }
KindOf(fn) == IF fn = <<"e.bin">> THEN "embed" ELSE KindNone
MainName == <<"m.cpp">>
DefaultVersion == <<"0", ".", "1", ".", "0">>

SrcKeys == {AddFullName(fn, None) : fn \in BuildNames}
ObjPaths == {ObjName(fn) : fn \in BuildNames}
BuildDir == <<"build">>
Dirs == {Cwd, BuildDir}

\* os.path.dirname(p) or '.'
dirname(p) ==
  LET sl == {i \in 1..Len(p) : p[i] = "/"} IN
  IF sl = {} THEN <<".">>
  ELSE LET i == CHOOSE x \in sl : \A y \in sl : y <= x
       IN IF i = 1 THEN <<"/">> ELSE SubSeq(p, 1, i - 1)

libfn == <<"build", "/", "libobjs-staticVER.a">>

\* ModiGCC.test_cmd: (None, None) unless the main file asks for a test link
testfn == IF need_test_link THEN <<"test_compile.exe">> ELSE None

\* CXXBuilder.compile_cmd: the command, by tool, input and output
compile_cmd(inputfn, output, kind) ==
  IF kind = "embed" THEN <<"embed", inputfn, output>>
  ELSE <<"gcc", inputfn, output>>

IsStale(e) ==
  need_compile(objM[e.objn], srcM[e.key], dirM[dirname(e.key)], e.kind)

\* variant: only the commands that will run are recorded
RECURSIVE AllCmdsStaleOnly(_)
AllCmdsStaleOnly(reg) ==
  IF reg = <<>> THEN <<>>
  ELSE (IF IsStale(reg[1])
        THEN <<[directory |-> Cwd,
                command |-> compile_cmd(reg[1].key, reg[1].objn, reg[1].kind),
                file |-> reg[1].key, output |-> reg[1].objn]>>
        ELSE <<>>) \o AllCmdsStaleOnly(Tail(reg))

\* the loop of build() over self.files.items()
RECURSIVE AllCmds(_)
AllCmds(reg) ==
  IF reg = <<>> THEN <<>>
  ELSE <<[directory |-> Cwd,
          command |-> compile_cmd(reg[1].key, reg[1].objn, reg[1].kind),
          file |-> reg[1].key, output |-> reg[1].objn]>> \o AllCmds(Tail(reg))

RECURSIVE StaleCmds(_)
StaleCmds(reg) ==
  IF reg = <<>> THEN <<>>
  ELSE (IF IsStale(reg[1])
        THEN <<compile_cmd(reg[1].key, reg[1].objn, reg[1].kind)>>
        ELSE <<>>) \o StaleCmds(Tail(reg))

Min(a, b) == IF a < b THEN a ELSE b

\* --------------------------------------------------------------- build()
Ev(e, id, c) == [ev |-> e, id |-> id, code |-> c]
LibId == <<"lib">>
TestId == <<"test">>
NoId == <<>>

Result(msg, stage) == [msg |-> msg, at |-> stage]

\* raise Exception(err): the build ends in stage
Raise(err, stage) ==
  /\ pc' = "finished"
  /\ outcome' = Result(err, stage)

\* what one compile command leaves behind: on exit 0 the object, stamped
\* now; a command that fails leaves its output as it was
ObjAfter(cmd, c) ==
  IF c = 0 THEN [objM EXCEPT ![cmd[3]] = FileAt(now)] ELSE objM

\* build() up to the dispatch: version macros, the assertion on the main
\* file, the command lists and the effective worker count
BuildBegin(h, cpu) ==
  LET pv == ParseVersion(version)
      req == IF h.none THEN cpu ELSE h.n
      stale == StaleCmds(files)
      np == Min(Len(stale), req)
  IN
  /\ pc = "idle"
  /\ constructed
  /\ prevOutcome' = outcome
  /\ log' = <<>>
  /\ dbWrites' = 0
  /\ hint' = [none |-> h.none, n |-> req]
  /\ UNCHANGED <<regvars, version, constructed, probe, fsvars>>
  /\ IF ~pv.ok
     THEN /\ Raise("ValueError", "version")
          /\ UNCHANGED <<macros, nprocess, cmds, o_cmds, jobs, idx>>
     ELSE /\ macros' = VersionMacros(macros, pv)
          /\ IF mainsrc = None
             THEN /\ Raise("AssertionError", "assert")
                  /\ UNCHANGED <<nprocess, cmds, o_cmds, jobs, idx>>
             ELSE /\ o_cmds' = AllCmds(files)
                  /\ cmds' = stale
                  /\ nprocess' = np
                  /\ jobs' = [i \in 1..Len(stale) |-> "queued"]
                  /\ idx' = 1
                  /\ outcome' = Result("running", "build")
                  /\ pc' = IF np > 1 THEN "pool"
                           ELSE IF np = 1 THEN "serial" ELSE "postcompile"

Running == {i \in 1..Len(jobs) : jobs[i] = "running"}

\* a pool worker takes the next queued task
PoolStart(i) ==
  /\ pc = "pool"
  /\ jobs[i] = "queued"
  /\ \A j \in 1..(i - 1) : jobs[j] # "queued"
  /\ Cardinality(Running) < nprocess
  /\ jobs' = [jobs EXCEPT ![i] = "running"]
  /\ log' = Append(log, Ev("spawn", cmds[i][2], 0))
  /\ UNCHANGED <<regvars, vervars, probe, fsvars, pc, hint, nprocess, cmds,
                 o_cmds, idx, dbWrites, outcome, prevOutcome>>

\* the task's os.system(cmd) returns c
PoolExit(i, c) ==
  /\ pc = "pool"
  /\ jobs[i] = "running"
  /\ jobs' = [jobs EXCEPT ![i] = IF c = 0 THEN "ok" ELSE "failed"]
  /\ objM' = ObjAfter(cmds[i], c)
  /\ log' = Append(log, Ev("exit", cmds[i][2], c))
  /\ UNCHANGED <<regvars, vervars, probe, pc, hint, nprocess, cmds, o_cmds,
                 idx, dbWrites, outcome, prevOutcome,
                 now, srcM, dirM, libF, testF, mainM, db>>

\* variant: the pool is left as soon as every task has been handed out
PoolCollectNoWait ==
  /\ pc = "pool"
  /\ \A i \in 1..Len(jobs) : jobs[i] # "queued"
  /\ IF \E i \in 1..Len(jobs) : jobs[i] = "failed"
     THEN Raise("compile error", "compile")
     ELSE pc' = "postcompile" /\ UNCHANGED outcome
  /\ UNCHANGED <<regvars, vervars, probe, fsvars, hint, nprocess, cmds, o_cmds,
                 jobs, idx, log, dbWrites, prevOutcome>>

\* variant: the first failure is raised without waiting for the others
PoolCollectEarly ==
  /\ pc = "pool"
  /\ \/ \E i \in 1..Len(jobs) : jobs[i] = "failed"
     \/ \A i \in 1..Len(jobs) : jobs[i] = "ok"
  /\ IF \E i \in 1..Len(jobs) : jobs[i] = "failed"
     THEN Raise("compile error", "compile")
     ELSE pc' = "postcompile" /\ UNCHANGED outcome
  /\ UNCHANGED <<regvars, vervars, probe, fsvars, hint, nprocess, cmds, o_cmds,
                 jobs, idx, log, dbWrites, prevOutcome>>

\* codes = [res.get() for res in ress]; any non-zero code raises
PoolCollect ==
  /\ pc = "pool"
  /\ \A i \in 1..Len(jobs) : jobs[i] \in {"ok", "failed"}
  /\ IF \E i \in 1..Len(jobs) : jobs[i] = "failed"
     THEN Raise("compile error", "compile")
     ELSE pc' = "postcompile" /\ UNCHANGED outcome
  /\ UNCHANGED <<regvars, vervars, probe, fsvars, hint, nprocess, cmds, o_cmds,
                 jobs, idx, log, dbWrites, prevOutcome>>

\* variant: the loop goes on after a non-zero exit code
SerialRunKeepGoing(c) ==
  /\ pc = "serial"
  /\ idx <= Len(cmds)
  /\ objM' = ObjAfter(cmds[idx], c)
  /\ log' = log \o <<Ev("spawn", cmds[idx][2], 0), Ev("exit", cmds[idx][2], c)>>
  /\ idx' = idx + 1
  /\ IF c # 0 /\ idx = Len(cmds) THEN Raise("compile error", "compile")
     ELSE /\ pc' = IF idx = Len(cmds) THEN "postcompile" ELSE "serial"
          /\ UNCHANGED outcome
  /\ UNCHANGED <<regvars, vervars, probe, hint, nprocess, cmds, o_cmds, jobs,
                 dbWrites, prevOutcome,
                 now, srcM, dirM, libF, testF, mainM, db>>

\* one iteration of "for cmd in cmds: if os.system(cmd) != 0: raise"
SerialRun(c) ==
  /\ pc = "serial"
  /\ idx <= Len(cmds)
  /\ objM' = ObjAfter(cmds[idx], c)
  /\ log' = log \o <<Ev("spawn", cmds[idx][2], 0), Ev("exit", cmds[idx][2], c)>>
  /\ idx' = idx + 1
  /\ IF c # 0 THEN Raise("compile error", "compile")
     ELSE /\ pc' = IF idx = Len(cmds) THEN "postcompile" ELSE "serial"
          /\ UNCHANGED outcome
  /\ UNCHANGED <<regvars, vervars, probe, hint, nprocess, cmds, o_cmds, jobs,
                 dbWrites, prevOutcome,
                 now, srcM, dirM, libF, testF, mainM, db>>

\* variant: the archive block runs in every build
ArchiveDueAlways == TRUE

\* if nprocess > 0 or not os.path.isfile(libfn)
ArchiveDue == nprocess > 0 \/ ~libF.exists

\* variant: a failing archive command does not stop the build
ArchiveRunLenient(c) ==
  /\ pc = "postcompile"
  /\ ArchiveDue
  /\ dbWrites' = dbWrites + 1
  /\ db' = o_cmds
  /\ pc' = "testlink"
  /\ log' = log \o <<Ev("db", NoId, 0), Ev("spawn", LibId, 0),
                     Ev("exit", LibId, c), Ev("touch", NoId, 0)>>
  /\ libF' = FileAt(now)
  /\ mainM' = now
  /\ dirM' = [dirM EXCEPT ![BuildDir] = now]
  /\ UNCHANGED outcome
  /\ UNCHANGED <<regvars, vervars, probe, hint, nprocess, cmds, o_cmds, jobs,
                 idx, prevOutcome, now, srcM, objM, testF>>

\* the compile-command database, the archive command and the touch of the
\* main file; the archiver replaces the library's entry in its directory
ArchiveRun(c) ==
  /\ pc = "postcompile"
  /\ ArchiveDue
  /\ dbWrites' = dbWrites + 1
  /\ db' = o_cmds
  /\ IF c # 0
     THEN /\ Raise("link error", "archive")
          /\ log' = log \o <<Ev("db", NoId, 0), Ev("spawn", LibId, 0),
                             Ev("exit", LibId, c)>>
          /\ UNCHANGED <<libF, mainM, dirM>>
     ELSE /\ pc' = "testlink"
          /\ log' = log \o <<Ev("db", NoId, 0), Ev("spawn", LibId, 0),
                             Ev("exit", LibId, c), Ev("touch", NoId, 0)>>
          /\ libF' = FileAt(now)
          /\ mainM' = now
          /\ dirM' = [dirM EXCEPT ![BuildDir] = now]
          /\ UNCHANGED outcome
  /\ UNCHANGED <<regvars, vervars, probe, hint, nprocess, cmds, o_cmds, jobs,
                 idx, prevOutcome, now, srcM, objM, testF>>

\* variant: the main file is touched although the archive block is skipped
ArchiveSkipTouching ==
  /\ pc = "postcompile"
  /\ ~ArchiveDue
  /\ pc' = "testlink"
  /\ mainM' = now
  /\ UNCHANGED <<regvars, vervars, probe, hint, nprocess, cmds, o_cmds,
                 jobs, idx, log, dbWrites, outcome, prevOutcome,
                 now, srcM, dirM, objM, libF, testF, db>>

ArchiveSkip ==
  /\ pc = "postcompile"
  /\ ~ArchiveDue
  /\ pc' = "testlink"
  /\ UNCHANGED <<regvars, vervars, probe, fsvars, hint, nprocess, cmds, o_cmds,
                 jobs, idx, log, dbWrites, outcome, prevOutcome>>

TestLinkDue ==
  /\ testfn # None
  /\ need_compile(testF, libF.mtime, dirM[dirname(libfn)], KindNone)

TestLinkRun(c) ==
  /\ pc = "testlink"
  /\ TestLinkDue
  /\ log' = log \o <<Ev("spawn", TestId, 0), Ev("exit", TestId, c)>>
  /\ IF c # 0
     THEN /\ Raise("link error", "testlink")
          /\ UNCHANGED testF
     ELSE /\ pc' = "setup"
          /\ testF' = FileAt(now)
          /\ UNCHANGED outcome
  /\ UNCHANGED <<regvars, vervars, probe, hint, nprocess, cmds, o_cmds, jobs,
                 idx, dbWrites, prevOutcome,
                 now, srcM, dirM, objM, libF, mainM, db>>

TestLinkSkip ==
  /\ pc = "testlink"
  /\ ~TestLinkDue
  /\ pc' = "setup"
  /\ UNCHANGED <<regvars, vervars, probe, fsvars, hint, nprocess, cmds, o_cmds,
                 jobs, idx, log, dbWrites, outcome, prevOutcome>>

\* setup(ext_modules=[...]): the packaging collaborator
SetupStep ==
  /\ pc = "setup"
  /\ log' = Append(log, Ev("setup", NoId, 0))
  /\ pc' = "finished"
  /\ outcome' = Result("ok", "setup")
  /\ UNCHANGED <<regvars, vervars, probe, fsvars, hint, nprocess, cmds, o_cmds,
                 jobs, idx, dbWrites, prevOutcome>>

NoHint == [none |-> TRUE, n |-> 0]

\* build() has returned or raised and the process ends: its locals and the
\* orchestrator are discarded; the next process constructs the orchestrator
\* and registers the same sources again; outcome keeps how the build ended
\* until the next build() begins
Restart ==
  /\ pc = "finished"
  /\ pc' = "idle"
  /\ macros' = <<>>
  /\ hint' = NoHint
  /\ nprocess' = 0
  /\ cmds' = <<>>
  /\ o_cmds' = <<>>
  /\ jobs' = <<>>
  /\ idx' = 1
  /\ log' = <<>>
  /\ dbWrites' = 0
  /\ prevOutcome' = Result("none", "none")
  /\ UNCHANGED <<regvars, version, constructed, probe, fsvars, outcome>>

\* ----------------------------------------------------------- environment
Tick ==
  /\ pc = "idle"
  /\ now < MaxTime
  /\ now' = now + 1
  /\ UNCHANGED <<regvars, vervars, probe, bldvars, srcM, dirM, objM, libF,
                 testF, mainM, db>>

EditSource(k) ==
  /\ pc = "idle"
  /\ k \in Keys(files)
  /\ srcM[k] # now
  /\ srcM' = [srcM EXCEPT ![k] = now]
  /\ UNCHANGED <<regvars, vervars, probe, bldvars, now, dirM, objM, libF,
                 testF, mainM, db>>

TouchDir(d) ==
  /\ pc = "idle"
  /\ dirM[d] # now
  /\ dirM' = [dirM EXCEPT ![d] = now]
  /\ UNCHANGED <<regvars, vervars, probe, bldvars, now, srcM, objM, libF,
                 testF, mainM, db>>

\* ------------------------------------------------------------------ steps
Hints == {NoHint} \cup
         {[none |-> FALSE, n |-> i] : i \in (0 - 1)..MaxHint}
Codes == {0, 1}

BuildBeginStep == \E h \in Hints, cpu \in 1..MaxCpu : BuildBegin(h, cpu)
\* build() called without a worker hint
BuildDefaultStep == \E cpu \in 1..MaxCpu : BuildBegin(NoHint, cpu)
PoolStartStep == \E i \in 1..Len(jobs) : PoolStart(i)
PoolExitStep ==
  \E i \in 1..Len(jobs), c \in Codes : PoolExit(i, c)
SerialRunStep == \E c \in Codes : SerialRun(c)
ArchiveRunStep == \E c \in Codes : ArchiveRun(c)
TestLinkRunStep == \E c \in Codes : TestLinkRun(c)
EditSourceStep == \E k \in SrcKeys : EditSource(k)
TouchDirStep == \E d \in {dirname(k) : k \in SrcKeys} : TouchDir(d)

\* CXXBuilder.__init__: stores the project's version text as it is
Construct ==
  /\ ~constructed
  /\ constructed' = TRUE
  /\ macros' = <<>>
  /\ UNCHANGED <<regvars, version, probe, bldvars, fsvars>>

\* ------------------------------------------------------------ initial states
RegIdle ==
  /\ files = <<>>
  /\ mainsrc = None
  /\ need_test_link = FALSE
  /\ lastReg = NoReg

BuildIdle ==
  /\ pc = "idle"
  /\ hint = NoHint
  /\ nprocess = 0
  /\ cmds = <<>>
  /\ o_cmds = <<>>
  /\ jobs = <<>>
  /\ idx = 1
  /\ log = <<>>
  /\ dbWrites = 0
  /\ outcome = Result("none", "none")
  /\ prevOutcome = Result("none", "none")

FsFresh ==
  /\ now = 0
  /\ srcM = [k \in SrcKeys |-> 0]
  /\ dirM = [d \in Dirs |-> 0]
  /\ objM = [o \in ObjPaths |-> NoFile]
  /\ libF = NoFile
  /\ testF = NoFile
  /\ mainM = 0
  /\ db = <<>>


InitReg ==
  /\ RegIdle
  /\ version = DefaultVersion /\ macros = <<>> /\ constructed = TRUE
  /\ probe = NoProbe
  /\ BuildIdle
  /\ FsFresh

NextReg == AddFilesStep \/ RemoveFilesStep \/ SetMainFileStep

SpecReg == InitReg /\ [][NextReg]_vars

\* versions: every text over Alphabet up to MaxVerLen characters
VersionTexts == UNION {[1..n -> Alphabet] : n \in 0..MaxVerLen}

InitVer ==
  /\ files = <<>> /\ mainsrc \in {None, MainName} /\ need_test_link = FALSE
  /\ lastReg = NoReg
  /\ version \in VersionTexts /\ macros = <<>> /\ constructed = FALSE
  /\ probe = NoProbe
  /\ BuildIdle
  /\ FsFresh

NextVer == Construct \/ BuildDefaultStep

SpecVer == InitVer /\ [][NextVer]_vars

\* staleness queries: every combination of stats up to MaxProbeTime
InitStale ==
  /\ RegIdle
  /\ version = DefaultVersion /\ macros = <<>> /\ constructed = TRUE
  /\ probe \in [dst : {NoFile} \cup {FileAt(t) : t \in 0..MaxProbeTime},
                srct : 0..MaxProbeTime, dirt : 0..MaxProbeTime,
                kind : ProbeKinds, res : {"unset"}]
  /\ BuildIdle
  /\ FsFresh

NextStale == ProbeStep

SpecStale == InitStale /\ [][NextStale]_vars

\* builds: a registry made by add_files, a designated main file
RECURSIVE RegFrom(_, _)
RegFrom(names, reg) ==
  IF names = <<>> THEN reg
  ELSE RegFrom(Tail(names), AddAll(reg, <<Head(names)>>, None, KindOf(Head(names))))

NameOrders ==
  {s \in UNION {[1..n -> BuildNames] : n \in 0..Cardinality(BuildNames)} :
      \A i, j \in 1..Len(s) : i # j => s[i] # s[j]}

InitBuild ==
  /\ files \in {RegFrom(s, <<>>) : s \in NameOrders}
  /\ mainsrc = MainName
  /\ need_test_link \in BOOLEAN
  /\ lastReg = NoReg
  /\ version = DefaultVersion /\ macros = <<>> /\ constructed = TRUE
  /\ probe = NoProbe
  /\ BuildIdle
  /\ FsFresh

NextBuild ==
  \/ BuildBeginStep
  \/ PoolStartStep
  \/ PoolExitStep
  \/ PoolCollect
  \/ SerialRunStep
  \/ ArchiveRunStep
  \/ ArchiveSkip
  \/ TestLinkRunStep
  \/ TestLinkSkip
  \/ SetupStep
  \/ Restart
  \/ Tick
  \/ EditSourceStep
  \/ TouchDirStep

SpecBuild == InitBuild /\ [][NextBuild]_vars

\* ================================================================= claims
\* events of the build in progress
CompileEvents == SelectSeq(log, LAMBDA e : e.id \in SrcKeys)
Spawned(id) == \E i \in 1..Len(log) : log[i].ev = "spawn" /\ log[i].id = id
Exited(id) == \E i \in 1..Len(log) : log[i].ev = "exit" /\ log[i].id = id
Failed(id) ==
  \E i \in 1..Len(log) : log[i].ev = "exit" /\ log[i].id = id /\ log[i].code # 0
CompileSpawned == \E k \in SrcKeys : Spawned(k)
CompileFailed == \E k \in SrcKeys : Failed(k)
SetupInvoked == \E i \in 1..Len(log) : log[i].ev = "setup"
CompileSpawnedIn(l) ==
  \E i \in 1..Len(l) : l[i].ev = "spawn" /\ l[i].id \in SrcKeys
ArchiveSpawnedIn(l) == \E i \in 1..Len(l) : l[i].ev = "spawn" /\ l[i].id = LibId

\* C1: the main file designated by the latest set_main_file is never a key
\* of the registry
\* (a designation is a set_main_file call that returns; every step that
\* keeps the designation must keep the main file out of the registry)
C1_MainNeverRegistered ==
  [][/\ (\E fn \in MainNames, d \in Directories, m \in BOOLEAN :
           set_main_file(fn, d, TRUE, m)) =>
        abspath(mainsrc') \notin Keys(files')
     /\ (mainsrc # None /\ mainsrc' = mainsrc
           /\ abspath(mainsrc) \notin Keys(files)) =>
        abspath(mainsrc') \notin Keys(files')]_vars

\* C8: the registry holds one entry per resolved absolute path, and the
\* entry of the path registered last carries that registration's object
\* path and kind
C8_OneEntryPerPath ==
  /\ \A i, j \in 1..Len(files) : i # j => files[i].key # files[j].key
  /\ \A i \in 1..Len(files) :
        isabs(files[i].key) /\ normpath(files[i].key) = files[i].key
  /\ lastReg.fn # <<>> =>
        \E i \in 1..Len(files) :
           /\ files[i].key = AddFullName(lastReg.fn, lastReg.directory)
           /\ files[i].objn = ObjName(lastReg.fn)
           /\ files[i].kind = lastReg.kind

C8_Witness == lastReg.replaced /\ Len(files) = 2

\* C2 as stated: with zero stale jobs no compile process is spawned and the
\* archive command still runs before packaging
C2_ArchiveAlwaysRuns ==
  (pc = "finished" /\ outcome.msg = "ok" /\ cmds = <<>> /\ files # <<>>) =>
     (~CompileSpawned /\ Spawned(LibId))

\* C2 amended: with zero stale jobs no compile process is spawned, and the
\* archive command runs exactly when the static library does not exist
C2_ArchiveIffLibMissing ==
  [][(pc = "postcompile" /\ cmds = <<>>) =>
        /\ ~CompileSpawnedIn(log')
        /\ ArchiveSpawnedIn(log') <=> ~libF.exists]_vars

C2_Witness ==
  pc = "testlink" /\ cmds = <<>> /\ libF.exists /\ log = <<>> /\ files # <<>>

\* C3: with a worker hint of 1 the stale commands run one at a time in the
\* order of the registry, nothing runs after the first non-zero exit code,
\* and that exit code ends the build with a compile error
C3_SerialInOrderFailFast ==
  (pc # "idle" /\ ~hint.none /\ hint.n = 1 /\ Len(cmds) >= 1) =>
     LET ce == CompileEvents
         ran == Len(ce) \div 2
     IN /\ Len(ce) = 2 * ran
        /\ ran <= Len(cmds)
        /\ \A j \in 1..ran :
              /\ ce[2 * j - 1] = Ev("spawn", cmds[j][2], 0)
              /\ ce[2 * j].ev = "exit" /\ ce[2 * j].id = cmds[j][2]
              /\ ce[2 * j].code # 0 =>
                    /\ j = ran
                    /\ pc = "finished"
                    /\ outcome = Result("compile error", "compile")
                    /\ Len(log) = Len(ce)
        /\ \A i, j \in 1..Len(cmds) :
              i < j => IndexOf(files, cmds[i][2]) < IndexOf(files, cmds[j][2])
        /\ (pc # "serial" /\ ~CompileFailed) => ran = Len(cmds)

C3_Witness ==
  /\ pc = "finished" /\ ~hint.none /\ hint.n = 1 /\ Len(cmds) = 2
  /\ log = <<Ev("spawn", cmds[1][2], 0), Ev("exit", cmds[1][2], 1)>>

\* C4: with N > 1 stale jobs and a worker hint of at least N, every job is
\* spawned and exits whatever the others return, and the build ends with a
\* compile error exactly when some exit code is non-zero
C4_ParallelRunsAll ==
  (pc # "idle" /\ Len(cmds) > 1 /\ hint.n >= Len(cmds)) =>
     /\ nprocess = Len(cmds)
     /\ pc = "pool" => outcome.msg = "running"
     /\ pc # "pool" =>
           /\ \A i \in 1..Len(cmds) : Spawned(cmds[i][2]) /\ Exited(cmds[i][2])
           /\ outcome.msg = "compile error" <=> CompileFailed

C4_Witness ==
  /\ pc = "finished" /\ Len(cmds) = 2 /\ hint.n >= 2
  /\ outcome.msg = "compile error"
  /\ \E k \in SrcKeys : Exited(k) /\ ~Failed(k)

\* C5: the staleness answer is true when the output is missing; else true
\* when the output is older than the source; else false for kind embed;
\* else true exactly when the output is older than the source's directory
C5_NeedsRebuildTable ==
  probe.res \in {"True", "False"} =>
     LET d == probe.dst
         yes == probe.res = "True"
     IN /\ ~d.exists => yes
        /\ (d.exists /\ d.mtime < probe.srct) => yes
        /\ (d.exists /\ d.mtime >= probe.srct /\ probe.kind = "embed") => ~yes
        /\ (d.exists /\ d.mtime >= probe.srct /\ probe.kind # "embed") =>
              (yes <=> d.mtime < probe.dirt)
        /\ (d.exists /\ d.mtime > probe.srct
              /\ (probe.kind = "embed" \/ d.mtime > probe.dirt)) => ~yes

C5_Witness ==
  /\ probe.res = "False" /\ probe.kind = "embed"
  /\ probe.dst.exists /\ probe.dst.mtime < probe.dirt

\* the text of one integer: an optional sign, then digits
IntText(t) ==
  LET body == IF t # <<>> /\ t[1] = "-" THEN Tail(t) ELSE t
  IN body # <<>> /\ \A i \in 1..Len(body) : body[i] \in {"0", "1"}

RECURSIVE Pow10(_)
Pow10(n) == IF n = 0 THEN 1 ELSE 10 * Pow10(n - 1)

RECURSIVE PlaceSum(_, _)
PlaceSum(t, i) ==
  IF i > Len(t) THEN 0
  ELSE (IF t[i] = "1" THEN Pow10(Len(t) - i) ELSE 0) + PlaceSum(t, i + 1)

TextVal(t) ==
  IF t[1] = "-" THEN 0 - PlaceSum(Tail(t), 1) ELSE PlaceSum(t, 1)

\* where the two dots of a three-component version are
DotPairs(v) ==
  {p \in (1..Len(v)) \X (1..Len(v)) :
      /\ p[1] < p[2]
      /\ \A i \in 1..Len(v) : v[i] = "." <=> i \in {p[1], p[2]}
      /\ IntText(SubSeq(v, 1, p[1] - 1))
      /\ IntText(SubSeq(v, p[1] + 1, p[2] - 1))
      /\ IntText(SubSeq(v, p[2] + 1, Len(v)))}

ThreeIntegers(v) == DotPairs(v) # {}

VersionMacrosOf(v) ==
  LET p == CHOOSE q \in DotPairs(v) : TRUE IN
  << <<"PROJ_MAJOR_VERSION", TextVal(SubSeq(v, 1, p[1] - 1))>>,
     <<"PROJ_MINOR_VERSION", TextVal(SubSeq(v, p[1] + 1, p[2] - 1))>>,
     <<"PROJ_PATCH_VERSION", TextVal(SubSeq(v, p[2] + 1, Len(v)))>> >>

\* C6 as stated: a.b.c becomes the three macros, and any other version text
\* fails the construction of the orchestrator
C6_MalformedFailsConstruction ==
  /\ constructed => ThreeIntegers(version)
  /\ (pc # "idle" /\ ThreeIntegers(version)) => macros = VersionMacrosOf(version)

\* C6 amended: a.b.c becomes the three macros when build() starts; any other
\* version text leaves construction alone and makes build() raise before a
\* macro is registered or a command is run
C6_MalformedFailsBuild ==
  pc # "idle" =>
     IF ThreeIntegers(version)
     THEN macros = VersionMacrosOf(version) /\ outcome.msg # "ValueError"
     ELSE /\ constructed
          /\ outcome = Result("ValueError", "version")
          /\ pc = "finished"
          /\ macros = <<>>
          /\ log = <<>>

C6_Witness ==
  /\ pc = "finished" /\ outcome.msg = "ValueError"
  /\ version = <<"1", ".", "0">>

\* one record per registered source, in the order of the registry
DbHoldsEverySource(d) ==
  /\ Len(d) = Len(files)
  /\ \A i \in 1..Len(files) :
        /\ d[i].file = files[i].key
        /\ d[i].output = files[i].objn
        /\ d[i].directory = Cwd
        /\ d[i].command[2] = files[i].key /\ d[i].command[3] = files[i].objn

\* C7 as stated: a build attempt that dispatched a compile job, or found
\* the library missing, has written the database once, with every source
\* (a library that is missing when the attempt ends was missing throughout)
C7_DbInEveryAttempt ==
  (pc = "finished" /\ outcome.at \notin {"version", "assert"}
     /\ (CompileSpawned \/ ~libF.exists)) =>
     (dbWrites = 1 /\ DbHoldsEverySource(db))

\* C7 amended: the database is written once, with a record for every
\* registered source, in a build attempt that reaches the archive step: no
\* compile job failed, and a job was dispatched or the library is missing.
\* Any other attempt, one aborted by a compile failure too, writes none
C7_DbOncePerArchive ==
  /\ [](/\ dbWrites <= 1
        /\ (pc \in {"pool", "serial", "postcompile"} \/ outcome.at = "compile")
              => dbWrites = 0)
  /\ [][pc = "postcompile" =>
          /\ dbWrites' = IF CompileSpawned \/ ~libF.exists THEN 1 ELSE 0
          /\ dbWrites' = 1 => DbHoldsEverySource(db')]_vars

C7_Witness ==
  /\ pc = "finished" /\ dbWrites = 1 /\ DbHoldsEverySource(db)
  /\ Len(files) = 2 /\ Len(cmds) = 1 /\ CompileSpawned

\* C9: the build after one that a compile or archive failure aborted runs
\* every command judged stale and archives the library again before it
\* invokes the packaging collaborator (worker hint of at least 1)
C9_FailureReevaluated ==
  (pc = "finished" /\ outcome.msg = "ok" /\ hint.n >= 1
     /\ prevOutcome.at \in {"compile", "archive"}) =>
     /\ \A i \in 1..Len(cmds) : Exited(cmds[i][2])
     /\ Spawned(LibId)

\* C10: the packaging collaborator is invoked only when every command that
\* ran exited 0; nothing of a later stage runs after a failing compile, and
\* no test-link runs after a failing archive
C10_FatalAbortsAll ==
  /\ SetupInvoked => ~CompileFailed /\ ~Failed(LibId) /\ ~Failed(TestId)
  /\ CompileFailed => ~Spawned(LibId) /\ ~Spawned(TestId) /\ ~SetupInvoked
  /\ Failed(LibId) => ~Spawned(TestId) /\ ~SetupInvoked
  /\ (pc = "finished" /\ outcome.msg = "ok") <=> SetupInvoked
  /\ (CompileFailed \/ Failed(LibId) \/ Failed(TestId)) =>
        pc \in {"pool", "finished"} /\ (pc = "finished" => outcome.msg # "ok")

C10_Witness ==
  /\ pc = "finished" /\ Failed(TestId) /\ Exited(LibId) /\ CompileSpawned

\* positions of the log
SpawnAt(i, id) == log[i].ev = "spawn" /\ log[i].id = id
ExitAt(i, id) == log[i].ev = "exit" /\ log[i].id = id

\* C11: the archive command starts only after every compile job that was
\* dispatched has exited, in serial and in pool mode, and no compile job
\* runs after it; the test-link command starts only after the archive
\* command of the same build, if any, has exited
C11_StageBarriers ==
  \A i \in 1..Len(log) :
    /\ SpawnAt(i, LibId) =>
          /\ \A a \in 1..Len(log) : \A k \in SrcKeys :
                SpawnAt(a, k) => \E b \in (a + 1)..(i - 1) : ExitAt(b, k)
          /\ \A j \in i..Len(log) : log[j].id \notin SrcKeys
    /\ SpawnAt(i, TestId) =>
          /\ \A a \in 1..Len(log) :
                SpawnAt(a, LibId) => \E b \in (a + 1)..(i - 1) : ExitAt(b, LibId)
          /\ \A j \in i..Len(log) : log[j].id \notin SrcKeys \cup {LibId}

C11_Witness ==
  /\ pc = "finished" /\ nprocess = 2 /\ Len(cmds) = 2
  /\ Len(log) >= 2 /\ log[1].ev = "spawn" /\ log[2].ev = "spawn"
  /\ Exited(LibId) /\ Exited(TestId)

TouchesIn(l) == Cardinality({i \in 1..Len(l) : l[i].ev = "touch"})

\* C12: build() sets the main file's modification time exactly when its
\* archive command has exited 0: the touch follows that exit at once and
\* comes before the test-link and the packaging, and every other step of a
\* build, a failing compile, a failing archive and a skipped archive
\* included, leaves the main file's modification time as it was
C12_TouchIffArchived ==
  /\ [](\A i \in 1..Len(log) :
          /\ log[i] = Ev("exit", LibId, 0) =>
                i < Len(log) /\ log[i + 1].ev = "touch"
          /\ log[i].ev = "touch" =>
                /\ i > 1 /\ log[i - 1] = Ev("exit", LibId, 0)
                /\ \A j \in 1..(i - 1) :
                      log[j].id # TestId /\ log[j].ev # "setup"
          /\ (log[i].id = TestId \/ log[i].ev = "setup") =>
                (Spawned(LibId) => \E j \in 1..(i - 1) : log[j].ev = "touch"))
  /\ [][IF TouchesIn(log') > TouchesIn(log)
        THEN mainM' = now
        ELSE mainM' = mainM]_vars

C12_Witness ==
  /\ pc = "finished" /\ outcome.msg = "ok"
  /\ TouchesIn(log) = 1 /\ mainM = 1 /\ Spawned(TestId)

\* the compile command of every source judged stale has exited 0
EveryStaleCompiled ==
  \A k \in 1..Len(cmds) :
     \E i \in 1..Len(log) : log[i] = Ev("exit", cmds[k][2], 0)

\* C13: whatever the worker hint, none, zero and negative included, a build
\* that has reached the archive or the packaging step has run the compile
\* command of every source judged stale, each with exit code 0, and past
\* the dispatch no compile has run only when no command was stale
C13_StaleAlwaysCompiled ==
  /\ (Spawned(LibId) \/ SetupInvoked) => EveryStaleCompiled
  /\ (pc \in {"postcompile", "testlink", "setup"} /\ ~CompileSpawned) =>
        cmds = <<>>

====
